---------------------------- MODULE Spec2Model ----------------------------
(* Funding-rate service: the market-detail assembler and the funding      *)
(* ranker of src/funding_bot_api.py, and their script variants            *)
(* get_funding_rates / find_top_positive_funding_rates of                 *)
(* src/funding-bot.py.                                                    *)
(*                                                                        *)
(* Numbers are binary floating-point values with a MantissaBits-bit       *)
(* significand (round to nearest, ties to even) and an unbounded          *)
(* exponent, without infinities or NaN; each is written as the integer it *)
(* denotes.  Python's float is the same arithmetic with 53 bits.          *)
EXTENDS Integers, Sequences, FiniteSets, TLC

VARIABLES pc, response, all_market_data_list, top_opportunities,
          funding_data, top_n, bot_top,
          hl_client_global, cg_client_global, req, started,
          coins_market_data, processed_coins

\* the shared client handles, the requests in service and the coin listing
serviceVars == <<hl_client_global, cg_client_global, req, started,
                 coins_market_data, processed_coins>>

vars == <<pc, response, all_market_data_list, top_opportunities,
          funding_data, top_n, bot_top, serviceVars>>

-----------------------------------------------------------------------------
(* Bounds of the model *)

\* longest meta['universe'] and longest asset-context list of a response
MaxLen == 2
\* longest list handed to the ranker on its own
MaxRankLen == 4
\* largest top_n handed to the ranker on its own
MaxTopN == 3
\* bits of the significand of a float
MantissaBits == 8

\* requests the service starts in a run
MaxRequests == 3
\* most coins of a listing
MaxCoins == 2
\* longest raw sparkline of a coin
MaxSparkLen == 22

\* top_n of the endpoint and of main()
DefaultTopN == 5
\* the sparkline is sampled when it has more points than this
SparklineThreshold == 14
\* the step of the sampling slice
SparklineStep == 7

-----------------------------------------------------------------------------
(* Floating point *)

RECURSIVE Pow2(_)
Pow2(k) == IF k = 0 THEN 1 ELSE 2 * Pow2(k - 1)

Abs(x) == IF x < 0 THEN -x ELSE x

\* the unit in the last place of a: the least power of two e with a < 2^MantissaBits * e
RECURSIVE Ulp(_, _)
Ulp(a, e) == IF a < Pow2(MantissaBits) * e THEN e ELSE Ulp(a, 2 * e)

\* the float nearest to the real x, ties to even
Fl(x) ==
    IF x = 0 THEN 0
    ELSE LET a == Abs(x)
             e == Ulp(a, 1)
             q == a \div e
             r == a % e
             up == (2 * r > e) \/ (2 * r = e /\ q % 2 = 1)
             m == IF up THEN q + 1 ELSE q
         IN  IF x < 0 THEN -(m * e) ELSE m * e

\* a * b on floats
FMul(a, b) == Fl(a * b)

-----------------------------------------------------------------------------
(* Values of a JSON field as Python sees them *)

Digits == <<"0", "1", "2", "3", "4", "5", "6", "7", "8", "9">>

IsDigit(c) == \E d \in 1..Len(Digits) : Digits[d] = c

DigitVal(c) == (CHOOSE d \in 1..Len(Digits) : Digits[d] = c) - 1

RECURSIVE DigitsVal(_, _)
DigitsVal(s, acc) ==
    IF s = <<>> THEN acc ELSE DigitsVal(Tail(s), 10 * acc + DigitVal(Head(s)))

AllDigits(s) == s # <<>> /\ \A i \in 1..Len(s) : IsDigit(s[i])

\* key absent from the dict (dict.get gives None), or JSON null
Absent == [kind |-> "none", n |-> 0, s |-> <<>>]
\* a JSON number
Num(k) == [kind |-> "num", n |-> k, s |-> <<>>]
\* a JSON string, as its characters
Str(chars) == [kind |-> "str", n |-> 0, s |-> chars]
\* a JSON integer beyond the range of a float
Huge == [kind |-> "huge", n |-> 0, s |-> <<>>]
\* a JSON array
List == [kind |-> "list", n |-> 0, s |-> <<>>]

\* float(v): the value, or the exception raised
PyFloat(v) ==
    CASE v.kind = "num" -> [exc |-> "", val |-> Fl(v.n)]
      [] v.kind = "str" ->
            IF AllDigits(v.s)
            THEN [exc |-> "", val |-> Fl(DigitsVal(v.s, 0))]
            ELSE IF Len(v.s) > 1 /\ Head(v.s) = "-" /\ AllDigits(Tail(v.s))
            THEN [exc |-> "", val |-> Fl(-DigitsVal(Tail(v.s), 0))]
            ELSE [exc |-> "ValueError", val |-> 0]
      [] v.kind = "huge" -> [exc |-> "OverflowError", val |-> 0]
      [] OTHER -> [exc |-> "TypeError", val |-> 0]


-----------------------------------------------------------------------------
(* The upstream response: meta, asset_contexts_with_state *)

\* an element of meta['universe']: a dict with a name, a dict with no
\* "name" key, or something that is not a dict
Descriptor(nm) == [isdict |-> TRUE, has_name |-> TRUE, name |-> nm]
NoNameDescriptor == [isdict |-> TRUE, has_name |-> FALSE, name |-> ""]
NotADictDescriptor == [isdict |-> FALSE, has_name |-> FALSE, name |-> ""]

\* an element of asset_contexts_with_state
AssetState(f, v, o) ==
    [isdict |-> TRUE, funding |-> f, dayNtlVlm |-> v, openInterest |-> o]
NotADictState ==
    [isdict |-> FALSE, funding |-> Absent, dayNtlVlm |-> Absent,
     openInterest |-> Absent]

\* what info_client.meta_and_asset_ctxs() gives: kind "ok" is a dict with a
\* list under "universe" and a list of states; "bad_meta" a meta without a
\* list under "universe"; "bad_ctxs" states that are no list; "raise" an
\* exception of the call
Response(k, u, c) == [kind |-> k, universe |-> u, ctxs |-> c]

-----------------------------------------------------------------------------
(* get_all_market_details, src/funding_bot_api.py *)

\* asset_detail.get("name") of a dict, as a truth value
HasName(asset_detail) ==
    asset_detail.isdict /\ asset_detail.has_name /\ asset_detail.name # ""

\* current_market_names: the names of the named descriptors, in order
RECURSIVE CurrentMarketNames(_)
CurrentMarketNames(universe) ==
    IF universe = <<>> THEN <<>>
    ELSE IF HasName(Head(universe))
         THEN <<Head(universe).name>> \o CurrentMarketNames(Tail(universe))
         ELSE CurrentMarketNames(Tail(universe))

\* the entry as constructed, every number at its default
DefaultEntry(market_name) ==
    [exchange |-> "Hyperliquid",
     market |-> market_name \o "-PERP",
     hourly_percentage |-> 0,
     apr |-> 0,
     volume_24h |-> 0,
     open_interest |-> 0,
     next_funding_time |-> "None",
     funding_interval_hours |-> 1]

\* the exceptions the three try blocks catch
CaughtByFieldHandler(exc) == exc = "ValueError"

\* variant: the apr assignment missing
SetHourlyPercentageOnly(entry, hourly_rate_decimal) ==
    [entry EXCEPT !.hourly_percentage = FMul(hourly_rate_decimal, 100)]

\* the funding block: both derived fields set from the parsed rate
SetFunding(entry, hourly_rate_decimal) ==
    [entry EXCEPT !.hourly_percentage = FMul(hourly_rate_decimal, 100),
                  !.apr = FMul(FMul(FMul(hourly_rate_decimal, 24), 365), 100)]

\* variant: the "is not None" test missing, float(None) raises
FundingBlockWithoutNoneTest(e, hourly_rate_str) ==
    IF e.raised THEN e
    ELSE LET f == PyFloat(hourly_rate_str)
         IN  IF f.exc = "" THEN [e EXCEPT !.rec = SetFunding(e.rec, f.val)]
             ELSE IF CaughtByFieldHandler(f.exc) THEN e
             ELSE [e EXCEPT !.raised = TRUE]

\* one of the three "if ... is not None: try: float(...) except ValueError"
\* blocks: the state of the entry after it and whether an exception left it
FundingBlock(e, hourly_rate_str) ==
    IF e.raised \/ hourly_rate_str.kind = "none" THEN e
    ELSE LET f == PyFloat(hourly_rate_str)
         IN  IF f.exc = "" THEN [e EXCEPT !.rec = SetFunding(e.rec, f.val)]
             ELSE IF CaughtByFieldHandler(f.exc) THEN e
             ELSE [e EXCEPT !.raised = TRUE]

VolumeBlock(e, volume_24h_str) ==
    IF e.raised \/ volume_24h_str.kind = "none" THEN e
    ELSE LET f == PyFloat(volume_24h_str)
         IN  IF f.exc = "" THEN [e EXCEPT !.rec.volume_24h = f.val]
             ELSE IF CaughtByFieldHandler(f.exc) THEN e
             ELSE [e EXCEPT !.raised = TRUE]

OpenInterestBlock(e, open_interest_str) ==
    IF e.raised \/ open_interest_str.kind = "none" THEN e
    ELSE LET f == PyFloat(open_interest_str)
         IN  IF f.exc = "" THEN [e EXCEPT !.rec.open_interest = f.val]
             ELSE IF CaughtByFieldHandler(f.exc) THEN e
             ELSE [e EXCEPT !.raised = TRUE]

\* the body of the loop for one market: the entry, or an exception
MarketDataEntry(market_name, asset_state_data) ==
    OpenInterestBlock(
        VolumeBlock(
            FundingBlock([raised |-> FALSE, rec |-> DefaultEntry(market_name)],
                         asset_state_data.funding),
            asset_state_data.dayNtlVlm),
        asset_state_data.openInterest)

\* a state that is no dict is passed over
SkipsState(asset_state_data) == ~asset_state_data.isdict

\* the loop over range(len(current_market_names)) from index i on;
\* an exception leaves through the outer handler, which returns []
RECURSIVE DetailLoop(_, _, _, _)
DetailLoop(names, ctxs, i, acc) ==
    IF i > Len(names) THEN acc
    ELSE IF SkipsState(ctxs[i]) THEN DetailLoop(names, ctxs, i + 1, acc)
    ELSE LET e == MarketDataEntry(names[i], ctxs[i])
         IN  IF e.raised THEN <<>>
             ELSE DetailLoop(names, ctxs, i + 1, Append(acc, e.rec))

\* the length check before the loop
LengthMismatch(current_market_names, asset_contexts_with_state) ==
    Len(current_market_names) # Len(asset_contexts_with_state)

get_all_market_details(info_client, resp) ==
    IF ~info_client THEN <<>>
    ELSE IF resp.kind = "raise" THEN <<>>
    ELSE IF resp.kind = "bad_meta" THEN <<>>
    ELSE IF resp.kind = "bad_ctxs" \/ resp.ctxs = <<>> THEN <<>>
    ELSE LET current_market_names == CurrentMarketNames(resp.universe)
         IN  IF LengthMismatch(current_market_names, resp.ctxs) THEN <<>>
             ELSE DetailLoop(current_market_names, resp.ctxs, 1, <<>>)

-----------------------------------------------------------------------------
(* Sorting and slicing, as Python does them *)

\* s with x put after every element whose key is not below x's
RECURSIVE InsertDescending(_, _, _)
InsertDescending(s, x, keys) ==
    IF s = <<>> THEN <<x>>
    ELSE IF keys[Head(s)] >= keys[x]
         THEN <<Head(s)>> \o InsertDescending(Tail(s), x, keys)
         ELSE <<x>> \o s

RECURSIVE SortFrom(_, _, _)
SortFrom(keys, i, acc) ==
    IF i > Len(keys) THEN acc
    ELSE SortFrom(keys, i + 1, InsertDescending(acc, i, keys))

\* variant: x put before the elements of equal key (an unstable sort, as
\* sorting ascending and reversing would give)
RECURSIVE InsertBeforeTies(_, _, _)
InsertBeforeTies(s, x, keys) ==
    IF s = <<>> THEN <<x>>
    ELSE IF keys[Head(s)] > keys[x]
         THEN <<Head(s)>> \o InsertBeforeTies(Tail(s), x, keys)
         ELSE <<x>> \o s

RECURSIVE SortTiesReversedFrom(_, _, _)
SortTiesReversedFrom(keys, i, acc) ==
    IF i > Len(keys) THEN acc
    ELSE SortTiesReversedFrom(keys, i + 1, InsertBeforeTies(acc, i, keys))

SortedTiesReversed(keys) == SortTiesReversedFrom(keys, 1, <<>>)

\* variant: reverse=True forgotten, ascending by key
RECURSIVE InsertAscending(_, _, _)
InsertAscending(s, x, keys) ==
    IF s = <<>> THEN <<x>>
    ELSE IF keys[Head(s)] <= keys[x]
         THEN <<Head(s)>> \o InsertAscending(Tail(s), x, keys)
         ELSE <<x>> \o s

RECURSIVE SortAscendingFrom(_, _, _)
SortAscendingFrom(keys, i, acc) ==
    IF i > Len(keys) THEN acc
    ELSE SortAscendingFrom(keys, i + 1, InsertAscending(acc, i, keys))

SortedAscending(keys) == SortAscendingFrom(keys, 1, <<>>)

\* sorted(..., key=..., reverse=True) as the positions of the input in
\* output order: descending by key, equal keys in input order
SortedDescending(keys) == SortFrom(keys, 1, <<>>)

\* variant: s[:n + 1]
SliceOneMore(s, n) ==
    SubSeq(s, 1, IF n + 1 < Len(s) THEN (IF n + 1 > 0 THEN n + 1 ELSE 0) ELSE Len(s))

\* s[:n]
Slice(s, n) ==
    LET stop == IF n >= 0 THEN (IF n < Len(s) THEN n ELSE Len(s))
                ELSE (IF Len(s) + n > 0 THEN Len(s) + n ELSE 0)
    IN  SubSeq(s, 1, stop)

-----------------------------------------------------------------------------
(* get_top_funding_opportunities, src/funding_bot_api.py *)

\* market.get("hourly_percentage", 0)
GetHourlyPercentage(market) ==
    IF "hourly_percentage" \in DOMAIN market THEN market.hourly_percentage ELSE 0

\* variant: the filter as "!= 0"
IsNonZeroFunding(market) == GetHourlyPercentage(market) # 0

\* the filter of the list comprehension
IsPositiveFunding(market) == GetHourlyPercentage(market) > 0

get_top_funding_opportunities(markets, n) ==
    IF markets = <<>> THEN <<>>
    ELSE LET positive_funding_markets == SelectSeq(markets, IsPositiveFunding)
         IN  IF positive_funding_markets = <<>> THEN <<>>
             ELSE LET keys == [i \in 1..Len(positive_funding_markets) |->
                                 positive_funding_markets[i].hourly_percentage]
                      order == SortedDescending(keys)
                      sorted_markets == [k \in 1..Len(order) |->
                                           positive_funding_markets[order[k]]]
                  IN  Slice(sorted_markets, n)

\* variant: the list sorted in place, as all_market_data_list.sort(...) would
ListSortedInPlace(markets, n) ==
    LET keys == [i \in 1..Len(markets) |-> GetHourlyPercentage(markets[i])]
        order == SortedDescending(keys)
    IN  [k \in 1..Len(order) |-> markets[order[k]]]

\* the caller's list after the call: the comprehension, sorted() and the
\* slice each build a new list and no record is assigned to
ListAfterRanking(markets, n) == markets

-----------------------------------------------------------------------------
(* get_funding_rates and find_top_positive_funding_rates, src/funding-bot.py *)

\* a dict as its items in insertion order
DictHasKey(d, k) == \E i \in 1..Len(d) : d[i].market = k

\* d[k] = v: a new key goes last, a known key keeps its place
DictSet(d, k, v) ==
    IF DictHasKey(d, k)
    THEN [i \in 1..Len(d) |-> IF d[i].market = k THEN [d[i] EXCEPT !.rate = v] ELSE d[i]]
    ELSE Append(d, [market |-> k, rate |-> v])

RECURSIVE RatesLoop(_, _, _, _)
RatesLoop(names, ctxs, i, acc) ==
    IF i > Len(names) THEN acc
    ELSE IF SkipsState(ctxs[i]) THEN RatesLoop(names, ctxs, i + 1, acc)
    ELSE IF ctxs[i].funding.kind = "none" THEN RatesLoop(names, ctxs, i + 1, acc)
    ELSE LET f == PyFloat(ctxs[i].funding)
         IN  IF f.exc = "" THEN RatesLoop(names, ctxs, i + 1, DictSet(acc, names[i], f.val))
             ELSE IF CaughtByFieldHandler(f.exc) THEN RatesLoop(names, ctxs, i + 1, acc)
             ELSE <<>>

get_funding_rates(info_client, resp) ==
    IF ~info_client THEN <<>>
    ELSE IF resp.kind = "raise" THEN <<>>
    ELSE IF resp.kind = "bad_meta" THEN <<>>
    ELSE IF resp.kind = "bad_ctxs" \/ resp.ctxs = <<>> THEN <<>>
    ELSE LET current_market_names == CurrentMarketNames(resp.universe)
         IN  IF LengthMismatch(current_market_names, resp.ctxs) THEN <<>>
             ELSE RatesLoop(current_market_names, resp.ctxs, 1, <<>>)

\* "if rate > 0"
IsPositiveRate(item) == item.rate > 0

\* the record of one top market
BotResult(entry) ==
    [market |-> entry.market,
     hourly_rate |-> entry.rate,
     hourly_percentage |-> FMul(entry.rate, 100),
     apr |-> FMul(FMul(FMul(entry.rate, 24), 365), 100)]

find_top_positive_funding_rates(data, n) ==
    LET positive_funding_markets == SelectSeq(data, IsPositiveRate)
    IN  IF positive_funding_markets = <<>> THEN <<>>
        ELSE LET keys == [i \in 1..Len(positive_funding_markets) |->
                            positive_funding_markets[i].rate]
                 order == SortedDescending(keys)
                 sorted_markets == [k \in 1..Len(order) |->
                                      positive_funding_markets[order[k]]]
                 top_markets_to_display == Slice(sorted_markets, n)
             IN  [k \in 1..Len(top_markets_to_display) |->
                    BotResult(top_markets_to_display[k])]

-----------------------------------------------------------------------------
(* get_coingecko_market_overview, src/funding_bot_api.py *)

\* the value under 'sparkline_in_7d': kind "absent" no such key, "null" a
\* JSON null, "noprice" a dict without 'price', "nullprice" a dict whose
\* 'price' is null, "list" a dict with the series pts under 'price'
Sparkline(k, pts) == [kind |-> k, pts |-> pts]

\* a coin of the listing: its id, whether market_cap is a number (or null)
\* and its sparkline; the other fields are read the way market_cap is
Coin(id, cap_is_number, spark) ==
    [id |-> id, cap_is_number |-> cap_is_number, sparkline_in_7d |-> spark]

\* what client.get_coins_markets(...) gives: a list of coins, or an exception
Listing(k, coins) == [kind |-> k, coins |-> coins]

\* raw_sparkline = get_safe(coin, 'sparkline_in_7d', {}).get('price', []):
\* a list (is_list) or None, or the AttributeError of None.get
RawSparkline(coin) ==
    LET sp == coin.sparkline_in_7d
    IN  CASE sp.kind = "null" -> [exc |-> "AttributeError", is_list |-> FALSE, pts |-> <<>>]
          [] sp.kind = "nullprice" -> [exc |-> "", is_list |-> FALSE, pts |-> <<>>]
          [] sp.kind = "list" -> [exc |-> "", is_list |-> TRUE, pts |-> sp.pts]
          [] OTHER -> [exc |-> "", is_list |-> TRUE, pts |-> <<>>]

\* s[::SparklineStep]
EveryNth(s) ==
    [k \in 1..((Len(s) + SparklineStep - 1) \div SparklineStep) |->
        s[SparklineStep * (k - 1) + 1]]

\* variant: the sampling from SparklineThreshold points on (">=" for ">")
SampledFromThreshold(raw_sparkline) ==
    IF raw_sparkline # <<>> /\ Len(raw_sparkline) >= SparklineThreshold
    THEN EveryNth(raw_sparkline)
    ELSE raw_sparkline

\* raw_sparkline[::7] if raw_sparkline and len(raw_sparkline) > 14 else raw_sparkline
SampledSparkline(raw_sparkline) ==
    IF raw_sparkline # <<>> /\ Len(raw_sparkline) > SparklineThreshold
    THEN EveryNth(raw_sparkline)
    ELSE raw_sparkline

\* coin_data of one coin, or the exception of building it: the
\* AttributeError of a null sparkline, the TypeError of formatting a null
\* market_cap with ":,.0f"
CoinData(rank_idx, coin) ==
    LET raw == RawSparkline(coin)
    IN  IF raw.exc # "" THEN [raised |-> TRUE, rec |-> <<>>]
        ELSE IF ~coin.cap_is_number THEN [raised |-> TRUE, rec |-> <<>>]
        ELSE [raised |-> FALSE,
              rec |-> [rank |-> rank_idx,
                       id |-> coin.id,
                       sparkline_in_7d |->
                           [is_list |-> raw.is_list,
                            price |-> SampledSparkline(raw.pts)]]]

\* the loop over enumerate(coins_market_data, 1); an exception leaves
\* through the handler, which returns []
RECURSIVE CoinLoop(_, _, _)
CoinLoop(coins, rank_idx, acc) ==
    IF rank_idx > Len(coins) THEN acc
    ELSE LET c == CoinData(rank_idx, coins[rank_idx])
         IN  IF c.raised THEN <<>>
             ELSE CoinLoop(coins, rank_idx + 1, Append(acc, c.rec))

get_coingecko_market_overview(client, listing) ==
    IF ~client THEN <<>>
    ELSE IF listing.kind = "raise" THEN <<>>
    ELSE IF listing.coins = <<>> THEN <<>>
    ELSE CoinLoop(listing.coins, 1, <<>>)

-----------------------------------------------------------------------------
(* The responses and lists the model draws *)

\* sequences over S of length at most n
SeqsUpTo(S, n) == UNION {[1..k -> S] : k \in 0..n}

Descriptors ==
    {Descriptor("BTC"), Descriptor("ETH"), Descriptor(""), NoNameDescriptor,
     NotADictDescriptor}

\* states: each field absent, a number, a numeric string, a string that is
\* no number, an array or an integer too large for a float, in turn
AssetStates ==
    {AssetState(Str(<<"3">>), Num(7), Str(<<"2">>)),
     AssetState(Num(-1), Str(<<"1", "2">>), Num(4)),
     AssetState(Absent, Str(<<"9">>), Num(5)),
     AssetState(Str(<<"x">>), Num(6), Num(1)),
     AssetState(Num(11), Str(<<>>), Absent),
     AssetState(Str(<<"3">>), Absent, Str(<<"-">>)),
     AssetState(List, Num(8), Num(2)),
     AssetState(Num(0), Huge, Num(3)),
     NotADictState}

Responses ==
    {Response("ok", u, c) : u \in SeqsUpTo(Descriptors, MaxLen),
                            c \in SeqsUpTo(AssetStates, MaxLen)}
    \cup {Response(k, <<>>, <<>>) : k \in {"raise", "bad_meta", "bad_ctxs"}}

MarketNames == <<"BTC", "ETH", "SOL", "ARB", "DOGE", "AVAX">>

\* hourly percentages of the lists handed to the ranker on its own
RankValues == -1..2

RankDraws ==
    {[has |-> TRUE, hp |-> h] : h \in RankValues} \cup {[has |-> FALSE, hp |-> 0]}

\* a record of the list: with the draw's hourly percentage, or without the key
RankRecord(nm, d) ==
    IF d.has
    THEN [DefaultEntry(nm) EXCEPT !.hourly_percentage = d.hp]
    ELSE [exchange |-> "Hyperliquid", market |-> nm \o "-PERP", apr |-> 0,
          volume_24h |-> 0, open_interest |-> 0, next_funding_time |-> "None",
          funding_interval_hours |-> 1]

RankList(draws) == [i \in 1..Len(draws) |-> RankRecord(MarketNames[i], draws[i])]

RECURSIVE RankDict(_, _)
RankDict(draws, i) ==
    IF i > Len(draws) THEN <<>>
    ELSE IF draws[i].has
         THEN <<[market |-> MarketNames[i], rate |-> draws[i].hp]>> \o RankDict(draws, i + 1)
         ELSE RankDict(draws, i + 1)

\* the series of n points: point i is 100 + i
Series(n) == [i \in 1..n |-> 100 + i]

Sparklines ==
    {Sparkline(k, <<>>) : k \in {"absent", "null", "noprice", "nullprice"}}
    \cup {Sparkline("list", Series(n)) : n \in 0..MaxSparkLen}

CoinIds == <<"bitcoin", "ethereum", "solana", "dogecoin">>

Listings ==
    {Listing("ok", [i \in 1..Len(caps) |-> Coin(CoinIds[i], caps[i], sparks[i])]) :
        <<caps, sparks>> \in
            UNION {[1..k -> BOOLEAN] \X [1..k -> Sparklines] : k \in 0..MaxCoins}}
    \cup {Listing("raise", <<>>)}

-----------------------------------------------------------------------------
(* The pipeline of a request (fetch, assemble, rank) and of main() *)

\* no request in service, no client, no coin listing
ServiceAtRest ==
    /\ hl_client_global = FALSE
    /\ cg_client_global = FALSE
    /\ req = <<>>
    /\ started = 0
    /\ coins_market_data = <<>>
    /\ processed_coins = <<>>

Init ==
    /\ pc = "fetched"
    /\ response \in Responses
    /\ all_market_data_list = <<>>
    /\ top_opportunities = <<>>
    /\ funding_data = <<>>
    /\ bot_top = <<>>
    /\ top_n = DefaultTopN
    /\ ServiceAtRest

\* all_markets_detailed = get_all_market_details(hl_client_global)
Assemble ==
    /\ pc = "fetched"
    /\ all_market_data_list' = get_all_market_details(TRUE, response)
    /\ pc' = "assembled"
    /\ UNCHANGED <<response, top_opportunities, funding_data, bot_top, top_n, serviceVars>>

\* top_opportunities = get_top_funding_opportunities(all_markets_detailed, top_n=5)
Rank ==
    /\ pc = "assembled"
    /\ all_market_data_list # <<>>
    /\ top_opportunities' = get_top_funding_opportunities(all_market_data_list, top_n)
    /\ pc' = "ranked"
    /\ all_market_data_list' = ListAfterRanking(all_market_data_list, top_n)
    /\ UNCHANGED <<response, funding_data, bot_top, top_n, serviceVars>>

\* funding_rates = get_funding_rates(info_client, perpetual_markets)
BotRates ==
    /\ pc = "fetched"
    /\ funding_data' = get_funding_rates(TRUE, response)
    /\ pc' = "bot_rates"
    /\ UNCHANGED <<response, all_market_data_list, top_opportunities, bot_top, top_n, serviceVars>>

\* find_top_positive_funding_rates(funding_rates, top_n=5)
BotTop ==
    /\ pc = "bot_rates"
    /\ funding_data # <<>>
    /\ bot_top' = find_top_positive_funding_rates(funding_data, top_n)
    /\ pc' = "bot_ranked"
    /\ UNCHANGED <<response, all_market_data_list, top_opportunities, funding_data, top_n, serviceVars>>

Next == Assemble \/ Rank \/ BotRates \/ BotTop

Spec == Init /\ [][Next]_vars

-----------------------------------------------------------------------------
(* The rankers on their own, on every list and every top_n *)

InitRank ==
    /\ pc = "rank"
    /\ response = Response("ok", <<>>, <<>>)
    /\ \E draws \in SeqsUpTo(RankDraws, MaxRankLen) :
          /\ all_market_data_list = RankList(draws)
          /\ funding_data = RankDict(draws, 1)
    /\ top_n \in -1..MaxTopN
    /\ top_opportunities = <<>>
    /\ bot_top = <<>>
    /\ ServiceAtRest

RankMarkets ==
    /\ pc = "rank"
    /\ top_opportunities' = get_top_funding_opportunities(all_market_data_list, top_n)
    /\ pc' = "ranked"
    /\ all_market_data_list' = ListAfterRanking(all_market_data_list, top_n)
    /\ UNCHANGED <<response, funding_data, bot_top, top_n, serviceVars>>

RankRates ==
    /\ pc = "rank"
    /\ bot_top' = find_top_positive_funding_rates(funding_data, top_n)
    /\ pc' = "bot_ranked"
    /\ UNCHANGED <<response, all_market_data_list, top_opportunities, funding_data, top_n, serviceVars>>

NextRank == RankMarkets \/ RankRates

SpecRank == InitRank /\ [][NextRank]_vars

-----------------------------------------------------------------------------
(* Properties of the assembler *)

\* the assembler has run on the response
Assembled == pc \in {"assembled", "ranked"}

\* the suffixed names of the named descriptors, in descriptor order
NamedMarkets(universe) ==
    LET names == CurrentMarketNames(universe)
    IN  [k \in 1..Len(names) |-> names[k] \o "-PERP"]

\* a field that is absent or converts to a float
FieldParses(v) == v.kind = "none" \/ PyFloat(v).exc = ""

\* a state that is a dict whose three fields are absent or convert
CleanState(st) ==
    /\ st.isdict
    /\ FieldParses(st.funding)
    /\ FieldParses(st.dayNtlVlm)
    /\ FieldParses(st.openInterest)

\* every element of meta['universe'] is a dict, with or without a name
AllDescriptorsDicts(universe) == \A i \in 1..Len(universe) : universe[i].isdict

\* C1: whenever meta['universe'] and the asset contexts differ in length,
\* get_all_market_details returns no record, nameless descriptors included.
\* Stated for the universes most favourable to the claim: every descriptor
\* a dict.
C1_MismatchYieldsNoRecords ==
    (Assembled /\ response.kind = "ok"
        /\ AllDescriptorsDicts(response.universe)
        /\ Len(response.universe) # Len(response.ctxs))
    => all_market_data_list = <<>>

\* C2: for equal-length sequences get_all_market_details returns one record
\* per named descriptor, in descriptor order, and a nameless descriptor is
\* skipped without suppressing the others.  Stated for the batches most
\* favourable to the claim: every descriptor a dict, every state a dict
\* whose fields all convert.
C2_OneRecordPerNamedDescriptor ==
    (Assembled /\ response.kind = "ok"
        /\ AllDescriptorsDicts(response.universe)
        /\ Len(response.universe) = Len(response.ctxs)
        /\ \A i \in 1..Len(response.ctxs) : CleanState(response.ctxs[i]))
    => /\ Len(all_market_data_list) = Len(NamedMarkets(response.universe))
       /\ \A k \in 1..Len(all_market_data_list) :
             all_market_data_list[k].market = NamedMarkets(response.universe)[k]

\* C3: every emitted record carries the name of the descriptor at some index
\* i of meta['universe'] and the values of the state at the same index i of
\* the asset contexts.  Stated for the universes most favourable to the
\* claim: every descriptor a dict.
C3_PositionalAlignment ==
    (Assembled /\ AllDescriptorsDicts(response.universe)) =>
        \A k \in 1..Len(all_market_data_list) :
            \E i \in 1..Len(response.universe) :
                /\ HasName(response.universe[i])
                /\ i <= Len(response.ctxs)
                /\ response.ctxs[i].isdict
                /\ all_market_data_list[k]
                     = MarketDataEntry(response.universe[i].name, response.ctxs[i]).rec

-----------------------------------------------------------------------------
(* Properties of the rankers *)

Min(a, b) == IF a < b THEN a ELSE b

Range(s) == {s[i] : i \in 1..Len(s)}

\* the positions of the input list whose hourly percentage is above zero
PositivePositions ==
    {i \in 1..Len(all_market_data_list) :
        GetHourlyPercentage(all_market_data_list[i]) > 0}

\* the positions of the rate dict whose rate is above zero
PositiveRatePositions ==
    {i \in 1..Len(funding_data) : funding_data[i].rate > 0}

\* the markets find_top_positive_funding_rates returned
BotTopMarkets == {bot_top[k].market : k \in 1..Len(bot_top)}

\* where a returned record stands in the input list
InputPosition(rec) ==
    CHOOSE i \in 1..Len(all_market_data_list) : all_market_data_list[i] = rec

\* C4: neither ranker returns a record whose hourly percentage (hourly rate)
\* is zero or negative, whatever the list and whatever n.
C4_OnlyPositiveReturned ==
    /\ pc = "ranked" =>
          \A k \in 1..Len(top_opportunities) :
              GetHourlyPercentage(top_opportunities[k]) > 0
    /\ pc = "bot_ranked" =>
          \A k \in 1..Len(bot_top) :
              bot_top[k].hourly_rate > 0 /\ bot_top[k].hourly_percentage > 0

\* a ranked list that held a negative and a zero record and returned something
C4_Witness ==
    /\ pc = "ranked"
    /\ top_opportunities # <<>>
    /\ \E i \in 1..Len(all_market_data_list) :
          GetHourlyPercentage(all_market_data_list[i]) < 0
    /\ \E i \in 1..Len(all_market_data_list) :
          /\ "hourly_percentage" \in DOMAIN all_market_data_list[i]
          /\ all_market_data_list[i].hourly_percentage = 0

\* C5: for n >= 0 the output of either ranker is in non-increasing order of
\* hourly percentage, and no positive record left out has a larger hourly
\* percentage than a returned one.
C5_SortedDescendingTopN ==
    /\ (pc = "ranked" /\ top_n >= 0) =>
          /\ \A k \in 1..(Len(top_opportunities) - 1) :
                top_opportunities[k].hourly_percentage
                    >= top_opportunities[k + 1].hourly_percentage
          /\ \A i \in PositivePositions :
                all_market_data_list[i] \notin Range(top_opportunities) =>
                    \A k \in 1..Len(top_opportunities) :
                        all_market_data_list[i].hourly_percentage
                            <= top_opportunities[k].hourly_percentage
    /\ (pc = "bot_ranked" /\ top_n >= 0) =>
          /\ \A k \in 1..(Len(bot_top) - 1) :
                bot_top[k].hourly_percentage >= bot_top[k + 1].hourly_percentage
          /\ \A i \in PositiveRatePositions :
                funding_data[i].market \notin BotTopMarkets =>
                    \A k \in 1..Len(bot_top) :
                        funding_data[i].rate <= bot_top[k].hourly_rate

\* an input in ascending order whose top two are returned in descending order
\* while a smaller positive record is cut off
C5_Witness ==
    /\ pc = "ranked"
    /\ top_n = 2
    /\ Len(top_opportunities) = 2
    /\ top_opportunities[1].hourly_percentage > top_opportunities[2].hourly_percentage
    /\ InputPosition(top_opportunities[1]) > InputPosition(top_opportunities[2])
    /\ \E i \in PositivePositions :
          all_market_data_list[i] \notin Range(top_opportunities)

\* C6: for n >= 0 either ranker returns exactly min(n, number of records with
\* a positive hourly percentage) records: none when nothing is positive or
\* when n = 0.
C6_ReturnsMinOfNAndPositives ==
    /\ (pc = "ranked" /\ top_n >= 0) =>
          Len(top_opportunities) = Min(top_n, Cardinality(PositivePositions))
    /\ (pc = "bot_ranked" /\ top_n >= 0) =>
          Len(bot_top) = Min(top_n, Cardinality(PositiveRatePositions))

\* more positive records than n: exactly n are returned
C6_Witness ==
    /\ pc = "ranked"
    /\ top_n >= 1
    /\ Cardinality(PositivePositions) > top_n
    /\ Len(top_opportunities) = top_n

\* C7: records of equal hourly percentage come out of
\* get_top_funding_opportunities in their input order, and of a tie cut at n
\* the earlier record is the one kept.
C7_StableRanking ==
    pc = "ranked" =>
        /\ \A k, l \in 1..Len(top_opportunities) :
              (k < l /\ top_opportunities[k].hourly_percentage
                          = top_opportunities[l].hourly_percentage)
              => InputPosition(top_opportunities[k]) < InputPosition(top_opportunities[l])
        /\ \A k \in 1..Len(top_opportunities) :
              \A i \in PositivePositions :
                  (all_market_data_list[i] \notin Range(top_opportunities)
                     /\ all_market_data_list[i].hourly_percentage
                          = top_opportunities[k].hourly_percentage)
                  => InputPosition(top_opportunities[k]) < i

\* three records tie, two are returned in input order and the third is cut
C7_Witness ==
    /\ pc = "ranked"
    /\ Len(top_opportunities) >= 2
    /\ top_opportunities[Len(top_opportunities) - 1].hourly_percentage
          = top_opportunities[Len(top_opportunities)].hourly_percentage
    /\ \E i \in PositivePositions :
          /\ all_market_data_list[i] \notin Range(top_opportunities)
          /\ all_market_data_list[i].hourly_percentage
                = top_opportunities[Len(top_opportunities)].hourly_percentage

-----------------------------------------------------------------------------
(* Properties of the records *)

IsDictState(st) == st.isdict

\* the states that are dicts, in order: an emitted batch has one record for
\* each of them
DictStates == SelectSeq(response.ctxs, IsDictState)

\* the place among the dict states of the state at index i
DictRank(i) == Cardinality({j \in 1..i : response.ctxs[j].isdict})

\* the funding field of a state converts to a rate
ParsesToRate(st) == st.funding.kind # "none" /\ PyFloat(st.funding).exc = ""

\* what a field contributes to the record: its float, or the default
FieldNumber(v) == IF v.kind # "none" /\ PyFloat(v).exc = "" THEN PyFloat(v).val ELSE 0

\* the record's two derived fields are the products of the code, or both 0
ConversionOf(rec, st) ==
    IF ParsesToRate(st)
    THEN LET r == PyFloat(st.funding).val
         IN  /\ rec.hourly_percentage = FMul(r, 100)
             /\ rec.apr = FMul(FMul(FMul(r, 24), 365), 100)
    ELSE rec.hourly_percentage = 0 /\ rec.apr = 0

\* C8 as amended: every emitted record has hourly_percentage = r*100 and
\* apr = r*24*365*100, each product rounded to a float in that order, when
\* the funding field parses to r, and both 0 otherwise; apr agrees with
\* hourly_percentage*24*365 to within a relative error of
\* 2^-(MantissaBits - 3), not exactly.
C8_ConversionUpToRounding ==
    (Assembled /\ all_market_data_list # <<>>) =>
        /\ Len(all_market_data_list) = Len(DictStates)
        /\ \A k \in 1..Len(all_market_data_list) :
              /\ ConversionOf(all_market_data_list[k], DictStates[k])
              /\ Abs(all_market_data_list[k].apr
                       - all_market_data_list[k].hourly_percentage * 24 * 365)
                    * Pow2(MantissaBits - 3)
                 <= Abs(all_market_data_list[k].apr)

\* C8 as claimed: in addition apr = hourly_percentage*24*365 in every record.
C8_AprEqualsHourlyTimes8760 ==
    (Assembled /\ all_market_data_list # <<>>) =>
        \A k \in 1..Len(all_market_data_list) :
            /\ ConversionOf(all_market_data_list[k], DictStates[k])
            /\ all_market_data_list[k].apr
                 = FMul(FMul(all_market_data_list[k].hourly_percentage, 24), 365)

\* a batch with a record whose rate parsed and one whose funding did not
C8_Witness ==
    /\ Assembled
    /\ Len(all_market_data_list) = 2
    /\ \E k \in 1..2 :
          /\ ParsesToRate(DictStates[k])
          /\ all_market_data_list[k].hourly_percentage # 0
          /\ all_market_data_list[k].apr # 0
    /\ \E k \in 1..2 :
          /\ DictStates[k].funding.kind = "str"
          /\ ~ParsesToRate(DictStates[k])
          /\ all_market_data_list[k].apr = 0

\* the response with the field of state i replaced by v
WithField(resp, i, field, v) == [resp EXCEPT !.ctxs[i][field] = v]

\* C9: a state without a funding field changes nothing but its own record's
\* hourly_percentage and apr, which are 0: the batch is the one a parseable
\* funding would give, record for record, and the record keeps the state's
\* volume and open interest.
C9_AbsentFundingStillYieldsRecord ==
    Assembled =>
        \A i \in 1..Len(response.ctxs) :
            (response.ctxs[i].isdict /\ response.ctxs[i].funding.kind = "none") =>
                LET with == get_all_market_details(
                                TRUE, WithField(response, i, "funding", Num(1)))
                IN  /\ Len(all_market_data_list) = Len(with)
                    /\ \A k \in 1..Len(with) :
                          IF k = DictRank(i)
                          THEN /\ all_market_data_list[k]
                                    = [with[k] EXCEPT !.hourly_percentage = 0,
                                                      !.apr = 0]
                               /\ with[k].hourly_percentage # 0
                               /\ all_market_data_list[k].volume_24h
                                    = FieldNumber(response.ctxs[i].dayNtlVlm)
                               /\ all_market_data_list[k].open_interest
                                    = FieldNumber(response.ctxs[i].openInterest)
                          ELSE all_market_data_list[k] = with[k]

\* two records, one of a state without funding that keeps its volume and open
\* interest, one with a funding rate
C9_Witness ==
    /\ Assembled
    /\ Len(all_market_data_list) = 2
    /\ \E i \in 1..Len(response.ctxs) :
          /\ response.ctxs[i].isdict
          /\ response.ctxs[i].funding.kind = "none"
          /\ all_market_data_list[DictRank(i)].hourly_percentage = 0
          /\ all_market_data_list[DictRank(i)].volume_24h # 0
          /\ all_market_data_list[DictRank(i)].open_interest # 0
    /\ \E k \in 1..2 : all_market_data_list[k].hourly_percentage # 0

OptionalFields == {"funding", "dayNtlVlm", "openInterest"}

\* C10: an optional field whose value does not convert to a number never
\* aborts the batch: the batch is the one the response gives with that field
\* absent (the field at 0.0, every other field and record the same).
C10_UnconvertibleFieldNeverAborts ==
    Assembled =>
        \A i \in 1..Len(response.ctxs) : \A field \in OptionalFields :
            (/\ response.ctxs[i].isdict
             /\ response.ctxs[i][field].kind # "none"
             /\ PyFloat(response.ctxs[i][field]).exc # "")
            => all_market_data_list
                 = get_all_market_details(TRUE, WithField(response, i, field, Absent))

-----------------------------------------------------------------------------
(* The coin listing on its own *)

InitOverview ==
    /\ pc = "coins_fetched"
    /\ response = Response("ok", <<>>, <<>>)
    /\ all_market_data_list = <<>>
    /\ top_opportunities = <<>>
    /\ funding_data = <<>>
    /\ bot_top = <<>>
    /\ top_n = DefaultTopN
    /\ hl_client_global = FALSE
    /\ cg_client_global = TRUE
    /\ req = <<>>
    /\ started = 0
    /\ coins_market_data \in Listings
    /\ processed_coins = <<>>

\* market_overview_data = get_coingecko_market_overview(cg_client_global, ...)
ProcessCoins ==
    /\ pc = "coins_fetched"
    /\ processed_coins' = get_coingecko_market_overview(cg_client_global, coins_market_data)
    /\ pc' = "coins_processed"
    /\ UNCHANGED <<response, all_market_data_list, top_opportunities, funding_data,
                   bot_top, top_n, hl_client_global, cg_client_global, req,
                   started, coins_market_data>>

NextOverview == ProcessCoins

SpecOverview == InitOverview /\ [][NextOverview]_vars

\* the points of s at the indices 0, 7, 14, ... (counted from 0), in order
IsEverySeventhOf(out, s) ==
    /\ Len(out) = Cardinality({i \in 0..(Len(s) - 1) : i % 7 = 0})
    /\ \A j \in 0..(Len(out) - 1) : out[j + 1] = s[7 * j + 1]

\* C14: the emitted sparkline of a coin is every 7th point of the raw series
\* when that has more than 14 points, and the raw series unchanged when it
\* has 14 or fewer, is empty or is absent.
C14_SparklineSampling ==
    pc = "coins_processed" =>
        \A k \in 1..Len(processed_coins) :
            LET raw == RawSparkline(coins_market_data.coins[k])
                out == processed_coins[k].sparkline_in_7d
            IN  /\ out.is_list = raw.is_list
                /\ IF Len(raw.pts) > 14
                   THEN IsEverySeventhOf(out.price, raw.pts)
                   ELSE out.price = raw.pts

\* a listing with a series of 22 points, emitted as its points 0, 7, 14 and
\* 21, and a series of 14 points, emitted whole
C14_Witness ==
    /\ pc = "coins_processed"
    /\ Len(processed_coins) = 2
    /\ Len(coins_market_data.coins[1].sparkline_in_7d.pts) = 22
    /\ processed_coins[1].sparkline_in_7d.price = <<101, 108, 115, 122>>
    /\ Len(coins_market_data.coins[2].sparkline_in_7d.pts) = 14
    /\ Len(processed_coins[2].sparkline_in_7d.price) = 14

-----------------------------------------------------------------------------
(* The service: the two endpoints, served by the threads of the server *)

\* the threads of the server that handle requests
Threads == {1, 2}

Endpoints == {"funding", "overview"}

\* the upstream answers a request of the service may meet
ServedResponses ==
    {Response("ok",
              <<Descriptor("BTC"), Descriptor("ETH")>>,
              <<AssetState(Str(<<"3">>), Num(7), Str(<<"2">>)),
                AssetState(Num(-1), Str(<<"1", "2">>), Num(4))>>),
     Response("ok",
              [i \in 1..6 |-> Descriptor(MarketNames[i])],
              [i \in 1..6 |-> AssetState(Num(<<1, 2, 2, 3, 1, 2>>[i]), Num(i), Num(1))]),
     Response("ok", <<Descriptor("BTC")>>, <<AssetState(Num(0), Num(3), Num(1))>>),
     Response("ok",
              <<Descriptor("BTC"), Descriptor("ETH")>>,
              <<AssetState(Num(1), Num(7), Num(2))>>),
     Response("bad_meta", <<>>, <<>>),
     Response("raise", <<>>, <<>>)}

ServedListings ==
    {Listing("ok", <<Coin("bitcoin", TRUE, Sparkline("list", Series(15)))>>),
     Listing("ok", <<Coin("bitcoin", FALSE, Sparkline("absent", <<>>))>>),
     Listing("ok", <<>>),
     Listing("raise", <<>>)}

\* a response the assembler turns into one record per descriptor
WellFormed(resp) ==
    /\ resp.kind = "ok"
    /\ resp.universe # <<>>
    /\ Len(resp.universe) = Len(resp.ctxs)
    /\ \A i \in 1..Len(resp.universe) : HasName(resp.universe[i])
    /\ \A i \in 1..Len(resp.ctxs) :
          /\ resp.ctxs[i].isdict
          /\ \A f \in {"funding", "dayNtlVlm", "openInterest"} :
                resp.ctxs[i][f].kind = "none" \/ PyFloat(resp.ctxs[i][f]).exc = ""

\* a listing every coin of which can be built
WellFormedListing(listing) ==
    /\ listing.kind = "ok"
    /\ listing.coins # <<>>
    /\ \A i \in 1..Len(listing.coins) : ~CoinData(i, listing.coins[i]).raised

\* a JSON body and its status; keys are the keys the body has
Payload(status, keys, error, error_message, all_markets, top, all_coins) ==
    [status |-> status, keys |-> keys, error |-> error,
     error_message |-> error_message, all_markets |-> all_markets,
     top_funding_opportunities |-> top, all_coins |-> all_coins]

NoPayload == Payload(0, {}, "", "", <<>>, <<>>, <<>>)

\* the answer when the client is not available after the re-attempt
ClientUnavailable(endpoint) ==
    IF endpoint = "funding"
    THEN Payload(500, {"error"}, "Failed to connect to Hyperliquid services",
                 "", <<>>, <<>>, <<>>)
    ELSE Payload(503, {"error"}, "Failed to connect to CoinGecko services",
                 "", <<>>, <<>>, <<>>)

\* variant: the "if not all_markets_detailed" branch missing
FundingPayloadWithoutEmptyBranch(all_markets_detailed) ==
    Payload(200,
            {"all_markets", "top_funding_opportunities", "last_updated_timestamp"},
            "", "",
            ListAfterRanking(all_markets_detailed, DefaultTopN),
            get_top_funding_opportunities(all_markets_detailed, DefaultTopN),
            <<>>)

\* the answer of /api/funding-data once the markets are assembled
FundingPayload(all_markets_detailed) ==
    IF all_markets_detailed = <<>>
    THEN Payload(200,
                 {"all_markets", "top_funding_opportunities",
                  "last_updated_timestamp", "error_message"},
                 "", "Could not retrieve market data from Hyperliquid.",
                 <<>>, <<>>, <<>>)
    ELSE Payload(200,
                 {"all_markets", "top_funding_opportunities", "last_updated_timestamp"},
                 "", "",
                 ListAfterRanking(all_markets_detailed, DefaultTopN),
                 get_top_funding_opportunities(all_markets_detailed, DefaultTopN),
                 <<>>)

\* the answer of /api/market-overview once the coins are processed
OverviewPayload(market_overview_data) ==
    IF market_overview_data = <<>>
    THEN Payload(200, {"all_coins", "last_updated_timestamp", "error_message"},
                 "", "Could not retrieve market overview data from CoinGecko.",
                 <<>>, <<>>, <<>>)
    ELSE Payload(200, {"all_coins", "last_updated_timestamp"},
                 "", "", <<>>, <<>>, market_overview_data)

\* a request of a thread: where it stands, what it has read and done.
\* healthy: no call to its upstream made since it began has failed or
\* returned malformed data; nulled: another request's failed initialisation has set
\* its handle to None since it began; after_failure: a request had failed
\* when it began
Request(endpoint, at, after_failure) ==
    [endpoint |-> endpoint, pc |-> at, init_ok |-> FALSE, init_calls |-> 0,
     fetches |-> 0, saw_null |-> FALSE, null_after |-> FALSE,
     called_with_null |-> FALSE, healthy |-> TRUE, nulled |-> FALSE,
     after_failure |-> after_failure,
     resp |-> Response("ok", <<>>, <<>>), markets |-> <<>>,
     listing |-> Listing("ok", <<>>), coins |-> <<>>,
     payload |-> NoPayload]

Idle == Request("none", "idle", FALSE)

Active(r) == r.pc \notin {"idle", "done"}

\* a request that ended with "error" or "error_message"
Failed(r) ==
    r.pc = "done" /\ (r.payload.keys \cap {"error", "error_message"}) # {}

\* the shared handle an endpoint reads and writes
Handle(endpoint) ==
    IF endpoint = "funding" THEN hl_client_global ELSE cg_client_global

\* every request in service on this endpoint has met a failing upstream
Unhealthy(rq, t) ==
    [u \in Threads |->
        IF Active(rq[u]) /\ rq[u].endpoint = rq[t].endpoint
        THEN [rq[u] EXCEPT !.healthy = FALSE] ELSE rq[u]]

\* every other request in service on this endpoint has its handle set to None
Nulled(rq, t) ==
    [u \in Threads |->
        IF u # t /\ Active(rq[u]) /\ rq[u].endpoint = rq[t].endpoint
        THEN [rq[u] EXCEPT !.nulled = TRUE] ELSE rq[u]]

pipelineVars == <<pc, response, all_market_data_list, top_opportunities,
                  funding_data, top_n, bot_top, coins_market_data, processed_coins>>

\* the module is imported: both clients are initialised once, each attempt
\* succeeds or fails
InitService ==
    /\ pc = "serving"
    /\ response = Response("ok", <<>>, <<>>)
    /\ all_market_data_list = <<>>
    /\ top_opportunities = <<>>
    /\ funding_data = <<>>
    /\ bot_top = <<>>
    /\ top_n = DefaultTopN
    /\ coins_market_data = Listing("ok", <<>>)
    /\ processed_coins = <<>>
    /\ hl_client_global \in BOOLEAN
    /\ cg_client_global \in BOOLEAN
    /\ req = [t \in Threads |-> Idle]
    /\ started = 0

\* a request arrives and a free thread takes it
Start(t) ==
    /\ started < MaxRequests
    /\ req[t].pc \in {"idle", "done"}
    /\ \E e \in Endpoints :
          req' = [req EXCEPT ![t] =
                     Request(e, "check", \E u \in Threads : Failed(req[u]))]
    /\ started' = started + 1
    /\ UNCHANGED <<hl_client_global, cg_client_global, pipelineVars>>

\* variant: no attempt to initialise a null handle again
CheckClientWithoutReinit(t) ==
    /\ req[t].pc = "check"
    /\ req' = [req EXCEPT ![t] =
                  IF Handle(req[t].endpoint)
                  THEN [@ EXCEPT !.pc = "fetch"]
                  ELSE [@ EXCEPT !.pc = "done", !.saw_null = TRUE,
                                 !.payload = ClientUnavailable(req[t].endpoint)]]
    /\ UNCHANGED <<hl_client_global, cg_client_global, started, pipelineVars>>

\* "if not hl_client_global:" / "if not cg_client_global:" at the top
CheckClient(t) ==
    /\ req[t].pc = "check"
    /\ req' = [req EXCEPT ![t] =
                  IF Handle(req[t].endpoint)
                  THEN [@ EXCEPT !.pc = "fetch"]
                  ELSE [@ EXCEPT !.pc = "init_call", !.saw_null = TRUE]]
    /\ UNCHANGED <<hl_client_global, cg_client_global, started, pipelineVars>>

\* initialize_..._client() up to the end of its upstream call: the
\* HyperliquidInfo constructor, or the CoinGeckoAPI constructor, which
\* already assigns the global, and its ping
InitCall(t) ==
    /\ req[t].pc = "init_call"
    /\ \E ok \in BOOLEAN :
          LET mine == [req EXCEPT ![t].pc = "init_write", ![t].init_ok = ok,
                                  ![t].init_calls = @ + 1]
          IN  req' = IF ok THEN mine ELSE Unhealthy(mine, t)
    /\ cg_client_global' =
          IF req[t].endpoint = "overview" THEN TRUE ELSE cg_client_global
    /\ UNCHANGED <<hl_client_global, started, pipelineVars>>

\* the assignment that ends initialize_..._client(): the client on success
\* (the CoinGecko global was assigned before the ping), None in the handler
InitWrite(t) ==
    /\ req[t].pc = "init_write"
    /\ hl_client_global' =
          IF req[t].endpoint = "funding" THEN req[t].init_ok ELSE hl_client_global
    /\ cg_client_global' =
          IF req[t].endpoint = "overview" /\ ~req[t].init_ok
          THEN FALSE ELSE cg_client_global
    /\ LET mine == [req EXCEPT ![t].pc = "recheck"]
       IN  req' = IF req[t].init_ok THEN mine ELSE Nulled(mine, t)
    /\ UNCHANGED <<started, pipelineVars>>

\* variant: the second test of the handle missing
RecheckSkipped(t) ==
    /\ req[t].pc = "recheck"
    /\ req' = [req EXCEPT ![t].pc = "fetch",
                          ![t].null_after = ~Handle(req[t].endpoint)]
    /\ UNCHANGED <<hl_client_global, cg_client_global, started, pipelineVars>>

\* the second "if not ..._client_global:" and its return of the error
Recheck(t) ==
    /\ req[t].pc = "recheck"
    /\ req' = [req EXCEPT ![t] =
                  IF Handle(req[t].endpoint)
                  THEN [@ EXCEPT !.pc = "fetch"]
                  ELSE [@ EXCEPT !.pc = "done", !.null_after = TRUE,
                                 !.payload = ClientUnavailable(req[t].endpoint)]]
    /\ UNCHANGED <<hl_client_global, cg_client_global, started, pipelineVars>>

\* variant: the handle taken for granted once the request is past its test
FetchMarketsUnguarded(t) ==
    /\ req[t].pc = "fetch"
    /\ req[t].endpoint = "funding"
    /\ \E resp \in ServedResponses :
          LET mine == [req EXCEPT ![t].pc = "respond",
                                  ![t].fetches = @ + 1,
                                  ![t].called_with_null = ~hl_client_global,
                                  ![t].resp = resp,
                                  ![t].markets = get_all_market_details(TRUE, resp)]
          IN  req' = IF WellFormed(resp) THEN mine ELSE Unhealthy(mine, t)
    /\ UNCHANGED <<hl_client_global, cg_client_global, started, pipelineVars>>

\* all_markets_detailed = get_all_market_details(hl_client_global): the
\* global is read again; a None makes the call return [] without a fetch
FetchMarkets(t) ==
    /\ req[t].pc = "fetch"
    /\ req[t].endpoint = "funding"
    /\ IF ~hl_client_global
       THEN req' = [req EXCEPT ![t].pc = "respond",
                               ![t].called_with_null = TRUE,
                               ![t].markets =
                                   get_all_market_details(FALSE, req[t].resp)]
       ELSE \E resp \in ServedResponses :
               LET mine == [req EXCEPT ![t].pc = "respond",
                                       ![t].fetches = @ + 1,
                                       ![t].resp = resp,
                                       ![t].markets =
                                           get_all_market_details(TRUE, resp)]
               IN  req' = IF WellFormed(resp) THEN mine ELSE Unhealthy(mine, t)
    /\ UNCHANGED <<hl_client_global, cg_client_global, started, pipelineVars>>

\* market_overview_data = get_coingecko_market_overview(cg_client_global, ...)
FetchCoins(t) ==
    /\ req[t].pc = "fetch"
    /\ req[t].endpoint = "overview"
    /\ IF ~cg_client_global
       THEN req' = [req EXCEPT ![t].pc = "respond",
                               ![t].called_with_null = TRUE,
                               ![t].coins =
                                   get_coingecko_market_overview(FALSE, req[t].listing)]
       ELSE \E listing \in ServedListings :
               LET mine == [req EXCEPT ![t].pc = "respond",
                                       ![t].fetches = @ + 1,
                                       ![t].listing = listing,
                                       ![t].coins =
                                           get_coingecko_market_overview(TRUE, listing)]
               IN  req' = IF WellFormedListing(listing) THEN mine ELSE Unhealthy(mine, t)
    /\ UNCHANGED <<hl_client_global, cg_client_global, started, pipelineVars>>

\* the rest of the handler: rank and build the answer
Respond(t) ==
    /\ req[t].pc = "respond"
    /\ req' = [req EXCEPT ![t].pc = "done",
                          ![t].payload =
                              IF req[t].endpoint = "funding"
                              THEN FundingPayload(req[t].markets)
                              ELSE OverviewPayload(req[t].coins)]
    /\ UNCHANGED <<hl_client_global, cg_client_global, started, pipelineVars>>

NextService ==
    \E t \in Threads :
        \/ Start(t)
        \/ CheckClient(t)
        \/ InitCall(t)
        \/ InitWrite(t)
        \/ Recheck(t)
        \/ FetchMarkets(t)
        \/ FetchCoins(t)
        \/ Respond(t)

SpecService == InitService /\ [][NextService]_vars

-----------------------------------------------------------------------------
(* The endpoints' handling of an unavailable client *)

PastInit(r) == r.pc \in {"recheck", "fetch", "respond", "done"}

\* C11: on both endpoints a request that finds the handle null at its start
\* attempts initialisation once (and a request that finds it set, never); if
\* the handle is still null afterwards the request is over, its answer has
\* exactly an "error" field and a status outside 200..299, and it has made no
\* upstream fetch nor called the assembler.
C11_NullHandleOneAttemptThenError ==
    \A t \in Threads :
        LET r == req[t]
        IN  /\ r.init_calls = (IF r.saw_null /\ r.pc # "init_call" THEN 1 ELSE 0)
            /\ r.saw_null /\ r.pc # "init_call" => PastInit(r) \/ r.pc = "init_write"
            /\ r.null_after =>
                  /\ r.saw_null
                  /\ r.pc = "done"
                  /\ r.payload = ClientUnavailable(r.endpoint)
                  /\ r.payload.keys = {"error"}
                  /\ r.payload.status \notin 200..299
                  /\ r.fetches = 0
                  /\ ~r.called_with_null
            /\ "error" \in r.payload.keys => r.null_after

C11_Witness ==
    /\ req[1].endpoint = "funding"
    /\ req[1].null_after
    /\ req[1].payload.status = 500
    /\ req[2].endpoint = "overview"
    /\ req[2].null_after
    /\ req[2].payload.status = 503
    /\ req[2].init_calls = 1

-----------------------------------------------------------------------------
(* Recovery of /api/funding-data after failed requests *)

\* the answer carries the records of the response, one per descriptor, and
\* no error
ServesRecords(r) ==
    /\ r.payload.status = 200
    /\ (r.payload.keys \cap {"error", "error_message"}) = {}
    /\ r.payload.all_markets # <<>>
    /\ Len(r.payload.all_markets) = Len(r.resp.universe)
    /\ r.payload.all_markets = get_all_market_details(TRUE, r.resp)

\* a /api/funding-data request that is answered and met a healthy upstream
AnsweredHealthy(r) ==
    r.endpoint = "funding" /\ r.pc = "done" /\ r.healthy

\* C12 as stated: whatever requests failed before, a /api/funding-data
\* request that meets a healthy upstream with well-formed data returns the
\* market records with no error_message.
C12_HealthyRequestServesRecords ==
    \A t \in Threads : AnsweredHealthy(req[t]) => ServesRecords(req[t])

\* C12: whatever requests failed before, a /api/funding-data request that
\* meets a healthy upstream with well-formed data, and during which no other
\* request's failed initialisation sets the shared handle to None, makes one
\* initialisation attempt if it found the handle null and none otherwise,
\* and returns the market records with no error_message.
C12_HealthyUndisturbedRequestServesRecords ==
    \A t \in Threads :
        AnsweredHealthy(req[t]) /\ ~req[t].nulled =>
            /\ ServesRecords(req[t])
            /\ req[t].fetches = 1
            /\ req[t].init_calls = (IF req[t].saw_null THEN 1 ELSE 0)

C12_Witness ==
    \E t \in Threads :
        /\ AnsweredHealthy(req[t])
        /\ ~req[t].nulled
        /\ req[t].after_failure
        /\ req[t].saw_null
        /\ ServesRecords(req[t])
        /\ started = MaxRequests

-----------------------------------------------------------------------------
(* The answer of /api/funding-data *)

\* a /api/funding-data request answered past the availability tests
AnsweredFunding(r) ==
    r.endpoint = "funding" /\ r.pc = "done" /\ ~r.null_after

\* the response is one the assembler gives up on
YieldsNoRecords(resp) ==
    \/ resp.kind \in {"raise", "bad_meta", "bad_ctxs"}
    \/ LengthMismatch(CurrentMarketNames(resp.universe), resp.ctxs)

\* C13: a /api/funding-data request whose client was available is answered
\* 200; the answer has an error_message exactly when assembly yielded no
\* records (as it does on a fetch exception, a data-shape error or a length
\* mismatch), and then all_markets and top_funding_opportunities are empty;
\* otherwise all_markets is the assembled list, top_funding_opportunities is
\* the ranker's result for n = 5, and there is no error_message.
C13_ErrorMessageIffNoRecords ==
    \A t \in Threads :
        LET r == req[t]
            p == r.payload
        IN  AnsweredFunding(r) =>
               /\ p.status = 200
               /\ "error" \notin p.keys
               /\ {"all_markets", "top_funding_opportunities",
                   "last_updated_timestamp"} \subseteq p.keys
               /\ ("error_message" \in p.keys) <=> (r.markets = <<>>)
               /\ r.fetches = 1 =>
                     /\ r.markets = get_all_market_details(TRUE, r.resp)
                     /\ YieldsNoRecords(r.resp) => r.markets = <<>>
               /\ IF r.markets = <<>>
                  THEN /\ p.all_markets = <<>>
                       /\ p.top_funding_opportunities = <<>>
                       /\ p.error_message # ""
                  ELSE /\ p.all_markets = r.markets
                       /\ p.top_funding_opportunities =
                              get_top_funding_opportunities(r.markets, 5)
                       /\ Len(p.top_funding_opportunities) <= 5
                       /\ p.error_message = ""

C13_Witness ==
    /\ AnsweredFunding(req[1])
    /\ req[1].fetches = 1
    /\ LengthMismatch(CurrentMarketNames(req[1].resp.universe), req[1].resp.ctxs)
    /\ "error_message" \in req[1].payload.keys
    /\ AnsweredFunding(req[2])
    /\ Len(req[2].payload.all_markets) = 6
    /\ Len(req[2].payload.top_funding_opportunities) = 5
    /\ "error_message" \notin req[2].payload.keys

-----------------------------------------------------------------------------
(* Records after construction *)

\* the market names of the descriptors, in order
DescriptorMarkets(universe) ==
    [i \in 1..Len(universe) |-> universe[i].name \o "-PERP"]

\* C15: ranking leaves the assembled list as it was: in every successful
\* /api/funding-data answer all_markets is the list the assembler built from
\* the response, its records in descriptor order, and every record of
\* top_funding_opportunities is a record of all_markets.
C15_RankingLeavesRecordsUnchanged ==
    \A t \in Threads :
        LET r == req[t]
            p == r.payload
        IN  AnsweredFunding(r) /\ r.markets # <<>> =>
               /\ p.all_markets = get_all_market_details(TRUE, r.resp)
               /\ [i \in 1..Len(p.all_markets) |-> p.all_markets[i].market]
                      = DescriptorMarkets(r.resp.universe)
               /\ \A i \in 1..Len(p.top_funding_opportunities) :
                     p.top_funding_opportunities[i] \in Range(p.all_markets)

C15_Witness ==
    \E t \in Threads :
        /\ AnsweredFunding(req[t])
        /\ Len(req[t].payload.all_markets) = 6
        /\ Len(req[t].payload.top_funding_opportunities) = 5
        /\ req[t].payload.top_funding_opportunities[1] = req[t].payload.all_markets[4]
        /\ req[t].payload.all_markets[1] # req[t].payload.top_funding_opportunities[1]

-----------------------------------------------------------------------------
(* Concurrent requests and the shared handle *)

\* C16 as stated: no /api/funding-data request calls get_all_market_details
\* with a null client.
C16_NeverInvokedWithNull ==
    \A t \in Threads :
        req[t].endpoint = "funding" => ~req[t].called_with_null

\* C16: a /api/funding-data request past the availability tests calls
\* get_all_market_details with a null client only if another request's
\* failed initialisation has set the shared handle to None since the request
\* began; the call then makes no upstream fetch and returns no records, and
\* the request is answered 200 with empty lists and an error_message.
C16_NullCallOnlyAfterForeignReset ==
    \A t \in Threads :
        LET r == req[t]
        IN  r.endpoint = "funding" /\ r.called_with_null =>
               /\ r.nulled
               /\ ~r.null_after
               /\ r.fetches = 0
               /\ r.markets = <<>>
               /\ r.pc = "done" =>
                     /\ r.payload.status = 200
                     /\ "error_message" \in r.payload.keys
                     /\ r.payload.all_markets = <<>>

C16_Witness ==
    \E t, u \in Threads :
        /\ req[t].endpoint = "funding"
        /\ req[t].called_with_null
        /\ req[t].pc = "done"
        /\ req[t].healthy
        /\ ~req[t].saw_null
        /\ req[u].endpoint = "funding"
        /\ req[u].null_after

=============================================================================
